---- MODULE Spec2Model ----
(***************************************************************************)
(* Model of the Poseidon Merkle branch extractor                           *)
(* (src/src/merkle_proof/poseidon_branch.rs), of the opening gadget and    *)
(* tree store it is used with (src/tests/tree.rs) and of the Poseidon      *)
(* cipher declared in src/src/cipher/mod.rs.                               *)
(*                                                                         *)
(* A BlsScalar is modelled as a non-empty sequence of integers: the scalar *)
(* BlsScalar::from(n) is <<n>>, and the digest of a sponge hash is the     *)
(* bracketed concatenation of its inputs, so that the hash is collision    *)
(* free and distinct from every embedded integer.  An Option<annotation>   *)
(* is the empty sequence (None) or the scalar (Some).                      *)
(***************************************************************************)
EXTENDS Integers, Sequences, FiniteSets, TLC

VARIABLES
    branch,           \* the kelvin Branch handed to From::from
    poseidon_branch,  \* the PoseidonBranch being built / returned
    pc,               \* "tree", "start", "returned", "panicked", "opened";
                      \* "cipher", "encrypted", "decrypted"
    root_out,         \* what PoseidonBranch::root() returned (None before the call)
    tree,             \* the leaves pushed to the PoseidonTree, in order
    leaf,             \* the leaf the branch was taken for
    root_p,           \* the value the opening gadget recomputed (None before)
    message,          \* the message handed to encrypt
    secret,           \* the shared secret (x, y)
    nonce,            \* the nonce
    cipher,           \* the PoseidonCipher produced by encrypt
    decrypted         \* the result of decrypt: [ok, message] (ok FALSE before and on failure)

treeVars == <<tree, leaf, root_p>>

cipherVars == <<message, secret, nonce, cipher, decrypted>>

branchVars == <<branch, poseidon_branch, root_out>>

vars == <<branch, poseidon_branch, pc, root_out, tree, leaf, root_p,
          message, secret, nonce, cipher, decrypted>>

----------------------------------------------------------------------------
(* Program constants *)

ARITY == 4

WIDTH == 5

DEPTH == 17

MESSAGE_CAPACITY == 2

CIPHER_SIZE_NoTag == MESSAGE_CAPACITY

CIPHER_SIZE == MESSAGE_CAPACITY + 1

(* Bounds of the model *)

MaxLevels == 2

----------------------------------------------------------------------------
(* Scalars and options *)

None == <<>>

BlsScalar(n) == <<n>>

Zero == BlsScalar(0)

Min(a, b) == IF a < b THEN a ELSE b

RECURSIVE Pow2(_)
Pow2(k) == IF k = 0 THEN 1 ELSE 2 * Pow2(k - 1)

\* 1u64 << k
Shl(k) == Pow2(k)

BitSet(n, k) == (n \div Pow2(k)) % 2 = 1

\* a | b on unsigned integers
RECURSIVE BitOr(_, _)
BitOr(a, b) ==
    IF a = 0 THEN b
    ELSE IF b = 0 THEN a
    ELSE (IF a % 2 = 1 \/ b % 2 = 1 THEN 1 ELSE 0) + 2 * BitOr(a \div 2, b \div 2)

\* sponge::hash over scalars: an injective encoding of its inputs
RECURSIVE Concat(_)
Concat(ss) == IF ss = <<>> THEN <<>> ELSE Head(ss) \o Concat(Tail(ss))

Hash(inputs) == <<-1>> \o Concat(inputs) \o <<-2>>

RECURSIVE Reverse(_)
Reverse(s) == IF s = <<>> THEN <<>> ELSE Append(Reverse(Tail(s)), Head(s))

----------------------------------------------------------------------------
(* PoseidonLevel and PoseidonBranch *)

PoseidonLevelDefault ==
    [offset |-> 0, leaves |-> [j \in 1..WIDTH |-> Zero]]

PoseidonBranchNew ==
    [root |-> Zero, levels |-> <<>>, padding_levels |-> <<>>]

----------------------------------------------------------------------------
(* From<&Branch> for PoseidonBranch *)

\* number of (src, dest) pairs of children().iter().zip(leaves.iter_mut().skip(1))
ZipLen(children) == Min(Len(children), WIDTH - 1)

\* the shift of the bitflag of the child enumerated as idx; idx < WIDTH - 1 =
\* ARITY, so the usize subtraction does not wrap and the u64 shift stays
\* below 64
BitShiftLsbFirst(idx) == idx

BitShift(idx) == (ARITY - 1) - idx

\* level_bitflags after the first n pairs of the for_each
RECURSIVE level_bitflags(_, _)
level_bitflags(children, n) ==
    IF n = 0 THEN 0
    ELSE LET idx == n - 1
             before == level_bitflags(children, n - 1)
         IN  IF children[n] # None
                THEN BitOr(before, Shl(BitShift(idx)))
                ELSE before

\* the slot of pos_level.leaves (0-based) the child enumerated as idx is written to
DestNoSkip(idx) == idx

Dest(idx) == idx + 1

\* *dest = match src.annotation() { Some(a) => a, None => zero }
DestValue(src) == IF src # None THEN src ELSE Zero

LevelOffsetUnshifted(level) == level.offset

LevelOffset(level) == level.offset + 1

pos_level(level) ==
    LET n == ZipLen(level.children)
        written == [j \in 0..(WIDTH - 1) |->
                      IF \E idx \in 0..(n - 1) : Dest(idx) = j
                         THEN DestValue(level.children[
                                  (CHOOSE idx \in 0..(n - 1) : Dest(idx) = j) + 1])
                         ELSE PoseidonLevelDefault.leaves[j + 1]]
        flags == BlsScalar(level_bitflags(level.children, n))
    IN  [offset |-> LevelOffset(level),
         leaves |-> [j \in 1..WIDTH |-> IF j = 1 THEN flags ELSE written[j - 1]]]

\* branch.levels().iter().rev()
LevelOrderForward(levels) == levels

LevelOrder(levels) == Reverse(levels)

\* the two expect() calls on first() and annotation()
PanicsNever(b) == FALSE

Panics(b) == Len(b.levels) = 0 \/ b.annotation = None

RootRecomputed(b) ==
    IF Len(b.levels) > 0 THEN Hash(pos_level(b.levels[1]).leaves) ELSE Zero

Root(b) == IF b.annotation # None THEN b.annotation ELSE PoseidonBranchNew.root

FromBranch(b) ==
    LET ordered == LevelOrder(b.levels)
    IN  [root |-> Root(b),
         levels |-> [k \in 1..Len(ordered) |-> pos_level(ordered[k])],
         padding_levels |-> PoseidonBranchNew.padding_levels]

From ==
    /\ pc = "start"
    /\ IF Panics(branch)
          THEN /\ pc' = "panicked"
               /\ poseidon_branch' = PoseidonBranchNew
          ELSE /\ pc' = "returned"
               /\ poseidon_branch' = FromBranch(branch)
    /\ UNCHANGED <<branch, root_out, treeVars, cipherVars>>

\* PoseidonBranch::root
RootGetter ==
    /\ pc \in {"returned", "opened"}
    /\ root_out = None
    /\ root_out' = poseidon_branch.root
    /\ UNCHANGED <<branch, poseidon_branch, pc, treeVars, cipherVars>>

----------------------------------------------------------------------------
(* The Branch views a store can hand to the conversion.  offset() is the    *)
(* index of the child the path continues through, so that child is         *)
(* occupied unless the node is empty; a store built for a larger arity can *)
(* report an offset the extractor's ARITY does not cover, and of its       *)
(* children only the first WIDTH - 1 are ever read (the zip stops there).  *)

\* annotations held by the children of a store node, by child position
ChildAnnotation == <<BlsScalar(7), BlsScalar(0), BlsScalar(8), BlsScalar(9)>>

StoreChildren ==
    { [i \in 1..ARITY |-> IF i \in occ THEN ChildAnnotation[i] ELSE None] :
        occ \in SUBSET (1..ARITY) }

StoreLevels ==
    { l \in [children : StoreChildren, offset : 0..ARITY] :
        \/ l.offset >= ARITY
        \/ l.children[l.offset + 1] # None
        \/ (l.offset = 0 /\ \A i \in 1..ARITY : l.children[i] = None) }

StoreAnnotations == {None, BlsScalar(0), BlsScalar(5)}

NoBranch == [levels |-> <<>>, annotation |-> None]

TreeIdle == tree = <<>> /\ leaf = None /\ root_p = None

NoResult == [ok |-> FALSE, message |-> <<>>]

CipherIdle ==
    /\ message = <<>>
    /\ secret = <<0, 0>>
    /\ nonce = 0
    /\ cipher = <<>>
    /\ decrypted = NoResult

Init ==
    /\ \E n \in 0..MaxLevels :
         \E ls \in [1..n -> StoreLevels] :
           \E a \in StoreAnnotations :
             branch = [levels |-> ls, annotation |-> a]
    /\ poseidon_branch = PoseidonBranchNew
    /\ pc = "start"
    /\ root_out = None
    /\ TreeIdle
    /\ CipherIdle

Next == From \/ RootGetter

Spec == Init /\ [][Next]_vars

----------------------------------------------------------------------------
(* Claims about the branch conversion, checked under Spec *)

Returned == pc \in {"returned", "opened"}

\* the store level the k-th PoseidonLevel (1-based) is claimed to come from
SourceOf(k) == branch.levels[Len(branch.levels) + 1 - k]

Occupied(src) == src # None

\* the integer embedded in a scalar built by BlsScalar::from
IntOf(scalar) == scalar[1]

\* C1: in every extracted level, bit (ARITY-1-i) of the integer in leaves[0]
\* is set iff child i of the store level was occupied, and no bit at
\* position ARITY or above is set.
C1_Bitmask ==
    Returned =>
        /\ Len(poseidon_branch.levels) = Len(branch.levels)
        /\ \A k \in 1..Len(poseidon_branch.levels) :
             LET flags == IntOf(poseidon_branch.levels[k].leaves[1])
             IN  /\ Len(poseidon_branch.levels[k].leaves[1]) = 1
                 /\ \A i \in 0..(ARITY - 1) :
                      BitSet(flags, ARITY - 1 - i)
                          <=> Occupied(SourceOf(k).children[i + 1])
                 /\ flags >= 0
                 /\ flags < Pow2(ARITY)

\* a returned branch whose bottom level has only its first child occupied:
\* the bitmask is 0b1000
C1_Witness ==
    /\ pc = "returned"
    /\ Len(branch.levels) = 2
    /\ branch.levels[2].children = <<BlsScalar(7), None, None, None>>
    /\ poseidon_branch.levels[1].leaves[1] = BlsScalar(8)

\* C2: every extracted level has offset = store offset + 1, and that offset
\* lies in [1, WIDTH).
C2_OffsetShift ==
    Returned =>
        /\ Len(poseidon_branch.levels) = Len(branch.levels)
        /\ \A k \in 1..Len(poseidon_branch.levels) :
             /\ poseidon_branch.levels[k].offset = SourceOf(k).offset + 1
             /\ poseidon_branch.levels[k].offset >= 1
             /\ poseidon_branch.levels[k].offset < WIDTH

\* C3: for a store path shallower than the configured depth, levels and
\* padding_levels together number exactly DEPTH, and every padding level is
\* all zero with offset 0.
C3_Padding ==
    (Returned /\ Len(branch.levels) < DEPTH) =>
        /\ Len(poseidon_branch.levels) + Len(poseidon_branch.padding_levels) = DEPTH
        /\ \A k \in 1..Len(poseidon_branch.padding_levels) :
             poseidon_branch.padding_levels[k] = PoseidonLevelDefault

\* C6: the root of a returned branch is the store's top-level annotation,
\* whatever the children, offsets and occupancy of the levels are, and
\* root() returns that value.
C6_RootVerbatim ==
    /\ Returned => poseidon_branch.root = branch.annotation
    /\ root_out # None => root_out = branch.annotation

\* root() has returned the annotation of a two-level store path
C6_Witness ==
    /\ root_out = BlsScalar(5)
    /\ Len(branch.levels) = 2
    /\ branch.levels[1].children = <<BlsScalar(7), None, None, BlsScalar(9)>>

\* C7: in every extracted level leaves[1+i] is the annotation of child i
\* when it is occupied and zero when it is empty; children
\* [occupied(7), empty, empty, occupied(9)] give [0b1001, 7, 0, 0, 9], and a
\* level without occupied children is all zero.
C7_Leaves ==
    Returned =>
        /\ Len(poseidon_branch.levels) = Len(branch.levels)
        /\ \A k \in 1..Len(poseidon_branch.levels) :
             LET src == SourceOf(k).children
                 leaves == poseidon_branch.levels[k].leaves
             IN  /\ Len(leaves) = WIDTH
                 /\ \A i \in 0..(ARITY - 1) :
                      leaves[1 + i + 1] =
                          IF Occupied(src[i + 1]) THEN src[i + 1] ELSE BlsScalar(0)
                 /\ src = <<BlsScalar(7), None, None, BlsScalar(9)>> =>
                      leaves = <<BlsScalar(9), BlsScalar(7), BlsScalar(0),
                                 BlsScalar(0), BlsScalar(9)>>
                 /\ (\A i \in 1..ARITY : src[i] = None) =>
                      leaves = [j \in 1..WIDTH |-> BlsScalar(0)]

\* the level of the concrete case has been extracted, next to an empty one
C7_Witness ==
    /\ pc = "returned"
    /\ Len(branch.levels) = 2
    /\ branch.levels[1].children = <<None, None, None, None>>
    /\ branch.levels[2].children = <<BlsScalar(7), None, None, BlsScalar(9)>>
    /\ poseidon_branch.levels[1].leaves[5] = BlsScalar(9)

\* C8: one PoseidonLevel per store level, in reversed order: levels[k] is
\* built from store level n-1-k (0-based).
C8_Reversed ==
    Returned =>
        LET n == Len(branch.levels)
        IN  /\ Len(poseidon_branch.levels) = n
            /\ \A k \in 0..(n - 1) :
                 LET lvl == poseidon_branch.levels[k + 1]
                     src == branch.levels[(n - 1 - k) + 1]
                 IN  /\ lvl.offset = src.offset + 1
                     /\ \A i \in 1..ARITY :
                          lvl.leaves[i + 1] =
                              IF src.children[i] # None THEN src.children[i]
                                                        ELSE BlsScalar(0)

\* a path of two different levels has been converted
C8_Witness ==
    /\ pc = "returned"
    /\ Len(branch.levels) = 2
    /\ branch.levels[1].offset = 0
    /\ branch.levels[2].offset = 3
    /\ branch.levels[1].children # branch.levels[2].children
    /\ poseidon_branch.levels[1].offset = 4

\* C9: when the store reports an offset outside [0, ARITY) the conversion
\* fails and returns no branch; no returned branch has an offset >= WIDTH.
C9_FailFast ==
    /\ (pc # "start" /\ \E k \in 1..Len(branch.levels) :
                            branch.levels[k].offset \notin 0..(ARITY - 1))
           => pc = "panicked"
    /\ Returned =>
           \A k \in 1..Len(poseidon_branch.levels) :
               poseidon_branch.levels[k].offset < WIDTH

\* C10: a returned branch has at least one level and its root is the
\* store's annotation; with no level, or no top annotation, the conversion
\* panics before any level is extracted.
C10_NoPlaceholderRoot ==
    /\ Returned =>
           /\ Len(branch.levels) >= 1
           /\ branch.annotation # None
           /\ Len(poseidon_branch.levels) >= 1
           /\ poseidon_branch.root = branch.annotation
    /\ (pc # "start" /\ (Len(branch.levels) = 0 \/ branch.annotation = None))
           => (pc = "panicked" /\ poseidon_branch.levels = <<>>)

\* the conversion panicked on a path whose top level has no annotation
C10_Witness ==
    /\ pc = "panicked"
    /\ Len(branch.levels) = 2
    /\ branch.annotation = None

----------------------------------------------------------------------------
(* The PoseidonTree the tests push leaves to, and its branch(pos): an       *)
(* append-only ARITY-ary tree whose node annotation is the sponge hash of  *)
(* the node's WIDTH-wide level (occupancy bitmask first, then the children *)
(* annotations, zero for an empty child).                                  *)

MaxLeaves == 5

LeafValues == {BlsScalar(1), BlsScalar(2)}

RECURSIVE Pow(_, _)
Pow(b, e) == IF e = 0 THEN 1 ELSE b * Pow(b, e - 1)

\* height of the tree holding n leaves: the least h >= 1 with ARITY^h >= n
RECURSIVE HeightFrom(_, _)
HeightFrom(n, h) == IF Pow(ARITY, h) >= n THEN h ELSE HeightFrom(n, h + 1)

TreeHeight(n) == HeightFrom(n, 1)

\* the occupancy bitmask of a node: first child on the most significant bit
RECURSIVE NodeMask(_, _)
NodeMask(children, n) ==
    IF n = 0 THEN 0
    ELSE NodeMask(children, n - 1)
           + (IF children[n] # None THEN Pow(2, ARITY - n) ELSE 0)

NodeLevel(children) ==
    <<BlsScalar(NodeMask(children, ARITY))>>
        \o [c \in 1..ARITY |-> IF children[c] # None THEN children[c] ELSE Zero]

\* annotation of node j (0-based) at height h; height 0 holds the leaves
RECURSIVE Annotation(_, _, _)
Annotation(t, h, j) ==
    IF h = 0 THEN (IF j < Len(t) THEN t[j + 1] ELSE None)
    ELSE IF j * Pow(ARITY, h) >= Len(t) THEN None
    ELSE Hash(NodeLevel([c \in 1..ARITY |->
                             Annotation(t, h - 1, ARITY * j + (c - 1))]))

\* tree.branch(pos): the levels from the root down to the leaf's node
TreeBranch(t, pos) ==
    LET H == TreeHeight(Len(t))
    IN  [levels |->
            [k \in 1..H |->
                LET h == H - k + 1
                    j == pos \div Pow(ARITY, h)
                IN  [children |-> [c \in 1..ARITY |->
                                      Annotation(t, h - 1, ARITY * j + (c - 1))],
                     offset |-> (pos \div Pow(ARITY, h - 1)) % ARITY]],
         annotation |-> Annotation(t, H, 0)]

\* tree.push(leaf)
Push(l) ==
    /\ pc = "tree"
    /\ Len(tree) < MaxLeaves
    /\ tree' = Append(tree, l)
    /\ UNCHANGED <<pc, leaf, root_p, branchVars, cipherVars>>

\* tree.branch(pos) for a position that holds a leaf
TakeBranch(pos) ==
    /\ pc = "tree"
    /\ pos < Len(tree)
    /\ branch' = TreeBranch(tree, pos)
    /\ leaf' = tree[pos + 1]
    /\ pc' = "start"
    /\ UNCHANGED <<tree, root_p, poseidon_branch, root_out, cipherVars>>

(* The opening gadget: the leaf is written at levels[0].leaves[offset], the *)
(* level is hashed, the digest written into the next level's offset slot,  *)
(* through every level and padding level.                                  *)

RECURSIVE OpeningFold(_, _)
OpeningFold(levels, h) ==
    IF levels = <<>> THEN h
    ELSE LET level == Head(levels)
             leaves == [level.leaves EXCEPT ![level.offset + 1] = h]
         IN  OpeningFold(Tail(levels), Hash(leaves))

merkle_opening(pb, l) == OpeningFold(pb.levels \o pb.padding_levels, l)

MerkleOpening ==
    /\ pc = "returned"
    /\ \A k \in 1..Len(poseidon_branch.levels) :
         poseidon_branch.levels[k].offset < WIDTH
    /\ root_p' = merkle_opening(poseidon_branch, leaf)
    /\ pc' = "opened"
    /\ UNCHANGED <<tree, leaf, branchVars, cipherVars>>

TreeInit ==
    /\ pc = "tree"
    /\ tree = <<>>
    /\ leaf = None
    /\ root_p = None
    /\ branch = NoBranch
    /\ poseidon_branch = PoseidonBranchNew
    /\ root_out = None
    /\ CipherIdle

TreeNext ==
    \/ \E l \in LeafValues : Push(l)
    \/ \E pos \in 0..(MaxLeaves - 1) : TakeBranch(pos)
    \/ From
    \/ RootGetter
    \/ MerkleOpening

TreeSpec == TreeInit /\ [][TreeNext]_vars

----------------------------------------------------------------------------
(* The Poseidon cipher.  Its scalars are the integers modulo Modulus; the   *)
(* permutation is a fixed function of the WIDTH-wide state.                *)

Modulus == 5

Fq == 0..(Modulus - 1)

RECURSIVE Sum(_, _)
Sum(f, n) == IF n = 0 THEN 0 ELSE f[n] + Sum(f, n - 1)

\* the permutation: an S-box on every word, then a linear mix with round constants
perm(state) ==
    LET sbox == [i \in 1..WIDTH |-> (state[i] * state[i] * state[i]) % Modulus]
    IN  [i \in 1..WIDTH |->
            (Sum([j \in 1..WIDTH |-> ((i + j) * sbox[j]) % Modulus], WIDTH) + i)
                % Modulus]

\* the state seeded from (secret, nonce) under the cipher's domain separator
initial_state(s, n) ==
    [i \in 1..WIDTH |->
        CASE i = 1 -> 1 % Modulus
          [] i = 2 -> MESSAGE_CAPACITY % Modulus
          [] i = 3 -> s[1]
          [] i = 4 -> s[2]
          [] OTHER -> n]

\* message word i (0-based), zero when the message is shorter
MessageWord(m, i) == IF i < Len(m) THEN m[i + 1] ELSE 0

encrypt(m, s, n) ==
    LET keystream == perm(initial_state(s, n))
        absorbed == [i \in 1..WIDTH |->
                        IF i >= 2 /\ i <= MESSAGE_CAPACITY + 1
                           THEN (keystream[i] + MessageWord(m, i - 2)) % Modulus
                           ELSE keystream[i]]
        tag == perm(absorbed)[2]
    IN  [i \in 1..CIPHER_SIZE |->
            IF i <= MESSAGE_CAPACITY THEN absorbed[i + 1] ELSE tag]

decrypt(c, s, n) ==
    LET keystream == perm(initial_state(s, n))
        words == [i \in 1..MESSAGE_CAPACITY |->
                     (c[i] - keystream[i + 1] + Modulus) % Modulus]
        absorbed == [i \in 1..WIDTH |->
                        IF i >= 2 /\ i <= MESSAGE_CAPACITY + 1
                           THEN c[i - 1]
                           ELSE keystream[i]]
        tag == perm(absorbed)[2]
    IN  IF Len(c) > MESSAGE_CAPACITY /\ c[MESSAGE_CAPACITY + 1] = tag
           THEN [ok |-> TRUE, message |-> words]
           ELSE [ok |-> FALSE, message |-> <<>>]

Encrypt ==
    /\ pc = "cipher"
    /\ cipher' = encrypt(message, secret, nonce)
    /\ pc' = "encrypted"
    /\ UNCHANGED <<message, secret, nonce, decrypted, treeVars, branchVars>>

Decrypt ==
    /\ pc = "encrypted"
    /\ decrypted' = decrypt(cipher, secret, nonce)
    /\ pc' = "decrypted"
    /\ UNCHANGED <<message, secret, nonce, cipher, treeVars, branchVars>>

CipherInit ==
    /\ pc = "cipher"
    /\ \E len \in 0..MESSAGE_CAPACITY : message \in [1..len -> Fq]
    /\ secret \in Fq \X Fq
    /\ nonce \in Fq
    /\ cipher = <<>>
    /\ decrypted = NoResult
    /\ TreeIdle
    /\ branch = NoBranch
    /\ poseidon_branch = PoseidonBranchNew
    /\ root_out = None

CipherNext == Encrypt \/ Decrypt

CipherSpec == CipherInit /\ [][CipherNext]_vars

\* C5: for every secret, nonce and message of at most MESSAGE_CAPACITY = 2
\* scalars, decrypting the cipher of the message succeeds and returns the
\* message with its missing slots zero, and the cipher holds exactly
\* CIPHER_SIZE = MESSAGE_CAPACITY + 1 = 3 scalars.
C5_RoundTrip ==
    /\ pc \in {"encrypted", "decrypted"} =>
           Len(cipher) = 3
    /\ pc = "decrypted" =>
           /\ decrypted.ok
           /\ decrypted.message =
                  <<IF Len(message) >= 1 THEN message[1] ELSE 0,
                    IF Len(message) >= 2 THEN message[2] ELSE 0>>

\* a one-word message has been encrypted and decrypted back, its second
\* slot read back as zero
C5_Witness ==
    /\ pc = "decrypted"
    /\ message = <<3>>
    /\ cipher[1] # 3
    /\ decrypted = [ok |-> TRUE, message |-> <<3, 0>>]

====
